---- MODULE Spec2Model ----
(***************************************************************************)
(* A model of gowiki.go: a wiki that keeps each page in the file           *)
(* <title>.txt and serves it over HTTP (home, view, edit, save).           *)
(*                                                                         *)
(* Strings of the program (request paths, titles, file names, bodies) are  *)
(* sequences of one-character strings, so that the regular expression, the *)
(* path cleaning of the request multiplexer and the byte-wise file writes  *)
(* are computed character by character.                                    *)
(***************************************************************************)
EXTENDS Integers, Sequences, FiniteSets, TLC

(***************************************************************************)
(* Bounds of the model.                                                    *)
(***************************************************************************)
MaxTailLen == 2          \* the length of the tail of a path (routing)
MaxRoutingRequests == 2  \* the requests of a run (routing)
MaxBodyLen == 2          \* the length of a submitted body
MaxRequests == 3         \* the requests of a run

SeqsUpTo(S, n) == UNION {[1..k -> S] : k \in 0..n}

(***************************************************************************)
(* Characters.                                                             *)
(***************************************************************************)
Lower == {"a","b","c","d","e","f","g","h","i","j","k","l","m",
          "n","o","p","q","r","s","t","u","v","w","x","y","z"}
Upper == {"A","B","C","D","E","F","G","H","I","J","K","L","M",
          "N","O","P","Q","R","S","T","U","V","W","X","Y","Z"}
Digit == {"0","1","2","3","4","5","6","7","8","9"}

Slash == <<"/">>
DotTxt == <<".","t","x","t">>
HomePage == <<"h","o","m","e","P","a","g","e">>
OpEdit == <<"e","d","i","t">>
OpSave == <<"s","a","v","e">>
OpView == <<"v","i","e","w">>

(***************************************************************************)
(* The inputs.  Submitted bodies: the body of length k is k times the k-th *)
(* byte, so that bodies of different lengths differ in every byte.  The    *)
(* requests of Spec use a few paths and two titles; those of SpecRouting   *)
(* use every path made of a head and a tail of up to MaxTailLen            *)
(* characters, and some more.                                              *)
(***************************************************************************)
Bytes == <<"x", "y", "z", "u", "v", "w">>
Body(k) == [i \in 1..k |-> Bytes[((k - 1) % Len(Bytes)) + 1]]
Bodies == {Body(k) : k \in 0..MaxBodyLen}
Conns == {1, 2}

Titles == { <<"a">>, HomePage }
StorePaths == { Slash, Slash \o OpView, Slash \o OpView \o Slash }
              \cup {Slash \o op \o Slash \o t : op \in {OpView, OpEdit, OpSave}, t \in Titles}

TailChars == {"a", "/", "."}
Heads == { Slash,
           Slash \o OpView \o Slash,
           Slash \o OpEdit \o Slash,
           Slash \o OpSave \o Slash,
           Slash \o OpView,
           <<"/","f","o","o">> }
MorePaths == { <<"/","v","i","e","w","/","Z","9">>,
               <<"/","v","i","e","w","/","h","a","s"," ","s","p","a","c","e">>,
               <<"/","v","i","e","w","/","a","b","c","1","2","3">>,
               <<"/","d","e","l","e","t","e","/","a","b","c">> }
RoutingPaths == {h \o t : h \in Heads, t \in SeqsUpTo(TailChars, MaxTailLen)}
                \cup MorePaths
Paths == StorePaths \cup RoutingPaths

(***************************************************************************)
(* Helpers on strings.                                                     *)
(***************************************************************************)
HasPrefix(s, p) == Len(s) >= Len(p) /\ SubSeq(s, 1, Len(p)) = p
HasSuffix(s, p) == Len(s) >= Len(p) /\ SubSeq(s, Len(s) - Len(p) + 1, Len(s)) = p
Drop(s, n) == SubSeq(s, n + 1, Len(s))

(***************************************************************************)
(* validPath = regexp.MustCompile("^/(edit|save|view)/([a-zA-Z0-9]+)$")    *)
(* FindStringSubmatch scans the path from the left: the literal "/", one   *)
(* of the three keywords, the literal "/", the longest run of characters   *)
(* of the class (at least one), and then the end of the text.  It returns  *)
(* <<>> (nil) or <<whole match, keyword, title>>.                          *)
(***************************************************************************)
\* a class that also admits the dot
InClassDot(ch) == ch \in Lower \cup Upper \cup Digit \cup {"."}

InClass(ch) == ch \in Lower \cup Upper \cup Digit

RECURSIVE RunEnd(_, _)
RunEnd(s, i) == IF i <= Len(s) /\ InClass(s[i]) THEN RunEnd(s, i + 1) ELSE i

Keywords == <<OpEdit, OpSave, OpView>>

MatchKeyword(s, i) ==
    LET hits == {k \in 1..Len(Keywords) : HasPrefix(Drop(s, i - 1), Keywords[k])}
    IN  IF hits = {} THEN <<>>
        ELSE Keywords[CHOOSE k \in hits : \A j \in hits : k <= j]

\* the pattern with * in place of +: an empty title matches
FindStringSubmatchStar(s) ==
    IF ~HasPrefix(s, Slash) THEN <<>>
    ELSE LET kw == MatchKeyword(s, 2)
         IN  IF kw = <<>> THEN <<>>
             ELSE LET i == 2 + Len(kw)
                  IN  IF ~HasPrefix(Drop(s, i - 1), Slash) THEN <<>>
                      ELSE LET j == RunEnd(s, i + 1)
                           IN  IF j # Len(s) + 1 THEN <<>>
                               ELSE <<s, kw, SubSeq(s, i + 1, j - 1)>>

FindStringSubmatch(s) ==
    IF ~HasPrefix(s, Slash) THEN <<>>
    ELSE LET kw == MatchKeyword(s, 2)
         IN  IF kw = <<>> THEN <<>>
             ELSE LET i == 2 + Len(kw)
                  IN  IF ~HasPrefix(Drop(s, i - 1), Slash) THEN <<>>
                      ELSE LET j == RunEnd(s, i + 1)
                           IN  IF j = i + 1 THEN <<>>
                               ELSE IF j # Len(s) + 1 THEN <<>>
                               ELSE <<s, kw, SubSeq(s, i + 1, j - 1)>>

(***************************************************************************)
(* net/http's request multiplexer, as main registers it: the patterns "/", *)
(* "/view/", "/edit/" and "/save/".  The mux cleans the request path       *)
(* (path.Clean, keeping a trailing slash) and answers 301 when the cleaned *)
(* path differs, or when the path is a registered subtree without its      *)
(* trailing slash; otherwise the longest registered prefix decides.        *)
(***************************************************************************)
RECURSIVE Split(_, _, _)
\* the "/"-separated segments of s from position i on, cur being the segment
\* collected so far
Split(s, i, cur) ==
    IF i > Len(s) THEN <<cur>>
    ELSE IF s[i] = "/" THEN <<cur>> \o Split(s, i + 1, <<>>)
    ELSE Split(s, i + 1, Append(cur, s[i]))

RECURSIVE Resolve(_, _, _)
\* path.Clean on a rooted path: drop empty and "." segments, let ".." remove
\* the segment before it (or nothing at the root)
Resolve(segs, i, stack) ==
    IF i > Len(segs) THEN stack
    ELSE IF segs[i] = <<>> \/ segs[i] = <<".">> THEN Resolve(segs, i + 1, stack)
    ELSE IF segs[i] = <<".", ".">>
         THEN Resolve(segs, i + 1,
                      IF stack = <<>> THEN stack ELSE SubSeq(stack, 1, Len(stack) - 1))
    ELSE Resolve(segs, i + 1, Append(stack, segs[i]))

RECURSIVE Join(_, _)
Join(stack, i) == IF i > Len(stack) THEN <<>> ELSE Slash \o stack[i] \o Join(stack, i + 1)

Clean(p) ==
    LET stack == Resolve(Split(p, 2, <<>>), 1, <<>>)
    IN  IF stack = <<>> THEN Slash ELSE Join(stack, 1)

cleanPath(p) ==
    IF p = <<>> THEN Slash
    ELSE LET q  == IF p[1] # "/" THEN Slash \o p ELSE p
             np == Clean(q)
         IN  IF q[Len(q)] = "/" /\ np # Slash THEN np \o Slash ELSE np

\* main: the registered patterns, longest first, and the handler of each
Patterns == << Slash \o OpView \o Slash, Slash \o OpEdit \o Slash,
               Slash \o OpSave \o Slash, Slash >>
Registered == {Patterns[k] : k \in 1..Len(Patterns)}

HandlerOf(pattern) ==
    IF pattern = Slash \o OpView \o Slash THEN "view"
    ELSE IF pattern = Slash \o OpEdit \o Slash THEN "edit"
    ELSE IF pattern = Slash \o OpSave \o Slash THEN "save"
    ELSE "home"

\* ServeMux.handler: an exact match, else the longest pattern that is a prefix
MuxMatch(path) ==
    IF path \in Registered THEN path
    ELSE LET hits == {k \in 1..Len(Patterns) : HasPrefix(path, Patterns[k])}
         IN  IF hits = {} THEN <<>>
             ELSE Patterns[CHOOSE k \in hits : \A j \in hits : k <= j]

\* ServeMux.Handler: <<"redirect", url>>, <<"handler", name>> or <<"notfound">>
ServeMux(path) ==
    LET cp == cleanPath(path)
    IN  IF cp \notin Registered /\ (cp \o Slash) \in Registered
        THEN [kind |-> "redirect", url |-> cp \o Slash, to |-> "none"]
        ELSE IF cp # path
        THEN [kind |-> "redirect", url |-> cp, to |-> "none"]
        ELSE IF MuxMatch(path) = <<>>
        THEN [kind |-> "notfound", url |-> <<>>, to |-> "none"]
        ELSE [kind |-> "handler", url |-> <<>>, to |-> HandlerOf(MuxMatch(path))]

(***************************************************************************)
(* http.ResponseWriter: the status is fixed by the first WriteHeader or,   *)
(* with 200, by the first Write; later WriteHeader calls change nothing.   *)
(* The body is the sequence of the chunks written.                         *)
(***************************************************************************)
NewResponse == [wroteHeader |-> FALSE, status |-> 0, location |-> <<>>, out |-> <<>>]

TextChunk(msg) == [kind |-> "text", text |-> msg, data |-> <<>>]
\* the output of a template executed with data: "all" of it or only a "part"
TemplateChunk(name, data, howmuch) ==
    [kind |-> "template", text |-> name \o ":" \o howmuch, data |-> data]

StatusOK == 200
StatusMovedPermanently == 301
StatusFound == 302
StatusNotFound == 404
StatusInternalServerError == 500

WriteHeader(w, code) ==
    IF w.wroteHeader THEN w ELSE [w EXCEPT !.wroteHeader = TRUE, !.status = code]

Write(w, chunk) ==
    LET w1 == WriteHeader(w, StatusOK) IN [w1 EXCEPT !.out = Append(@, chunk)]

\* http.Error: the status, then the message as the body
Error(w, msg, code) == Write(WriteHeader(w, code), TextChunk(msg))

NotFound(w) == Error(w, "404 page not found", StatusNotFound)

\* http.Redirect with a rooted url: the Location header is the cleaned url,
\* then the status.  (The short note with the link that a GET also gets as
\* its body is left out.)
Redirect(w, url, code) ==
    WriteHeader([w EXCEPT !.location = cleanPath(url)], code)

\* the server ends a response no handler wrote a status to with 200
FinishRequest(w) == WriteHeader(w, StatusOK)

(***************************************************************************)
(* The files of the working directory: a function from the names of the    *)
(* files that exist to their content.                                      *)
(***************************************************************************)
\* ioutil.ReadFile
ReadFile(fs, filename) ==
    IF filename \in DOMAIN fs THEN [data |-> fs[filename], err |-> "nil"]
    ELSE [data |-> <<>>, err |-> "open: no such file or directory"]

\* an open without O_TRUNC: an existing file keeps its content
OpenNoTrunc(fs, filename) ==
    [n \in DOMAIN fs \cup {filename} |-> IF n \in DOMAIN fs THEN fs[n] ELSE <<>>]

\* os.OpenFile(filename, O_WRONLY|O_CREATE|O_TRUNC, 0600), the first step of
\* ioutil.WriteFile: the file exists and is empty afterwards
OpenTrunc(fs, filename) ==
    [n \in DOMAIN fs \cup {filename} |-> IF n = filename THEN <<>> ELSE fs[n]]

\* a write in append mode: the bytes go after the content
WriteAppend(fs, filename, data, n) ==
    LET old == IF filename \in DOMAIN fs THEN fs[filename] ELSE <<>>
    IN  [m \in DOMAIN fs \cup {filename} |->
           IF m = filename THEN old \o SubSeq(data, 1, n) ELSE fs[m]]

\* File.Write of the first n bytes of data at the descriptor's offset 0: the
\* bytes replace those at the same positions, what lies beyond them stays
WriteAt0(fs, filename, data, n) ==
    LET old == IF filename \in DOMAIN fs THEN fs[filename] ELSE <<>>
        new == SubSeq(data, 1, n) \o Drop(old, IF n < Len(old) THEN n ELSE Len(old))
    IN  [m \in DOMAIN fs \cup {filename} |-> IF m = filename THEN new ELSE fs[m]]

(***************************************************************************)
(* Page, loadPage.                                                         *)
(***************************************************************************)
Page(title, body) == [Title |-> title, Body |-> body]

\* a *Page is <<>> (nil) or <<page>>
loadPage(fs, title) ==
    LET filename == title \o DotTxt
        r == ReadFile(fs, filename)
    IN  IF r.err # "nil" THEN [p |-> <<>>, err |-> r.err]
        ELSE [p |-> <<Page(title, r.data)>>, err |-> "nil"]

(***************************************************************************)
(* templates, renderTemplate.  The template files are not part of the      *)
(* program: how an execution ends is an input.  "ok": all output written;  *)
(* "failEarly": an error before any output; "failLate": an error after a   *)
(* part of the output was written to the response.                         *)
(***************************************************************************)
templates == {"home.html", "edit.html", "view.html"}
ExecOutcomes == {"ok", "failEarly", "failLate"}

ExecuteTemplate(w, name, data, outcome) ==
    IF name \notin templates THEN [w |-> w, err |-> "template is undefined"]
    ELSE IF outcome = "ok"
    THEN [w |-> Write(w, TemplateChunk(name, data, "all")), err |-> "nil"]
    ELSE IF outcome = "failLate"
    THEN [w |-> Write(w, TemplateChunk(name, data, "part")), err |-> "exec error"]
    ELSE [w |-> w, err |-> "exec error"]

renderTemplate(w, tmpl, p, outcome) ==
    LET r == ExecuteTemplate(w, tmpl \o ".html", p, outcome)
    IN  IF r.err # "nil" THEN Error(r.w, r.err, StatusInternalServerError)
        ELSE r.w

(***************************************************************************)
(* The handlers, as functions of the response writer, the files and the    *)
(* request.                                                                *)
(***************************************************************************)
homeHandler(w, fs, exec) ==
    LET l == loadPage(fs, HomePage)
    IN  renderTemplate(w, "home", l.p, exec)

\* viewHandler with the test of err inverted
viewHandlerInverted(w, fs, title, exec) ==
    LET l == loadPage(fs, title)
    IN  IF l.err = "nil"
        THEN Redirect(w, Slash \o OpEdit \o Slash \o title, StatusFound)
        ELSE renderTemplate(w, "view", l.p, exec)

\* viewHandler redirecting to the view URL instead of the edit URL
viewHandlerToView(w, fs, title, exec) ==
    LET l == loadPage(fs, title)
    IN  IF l.err # "nil"
        THEN Redirect(w, Slash \o OpView \o Slash \o title, StatusFound)
        ELSE renderTemplate(w, "view", l.p, exec)

viewHandler(w, fs, title, exec) ==
    LET l == loadPage(fs, title)
    IN  IF l.err # "nil"
        THEN Redirect(w, Slash \o OpEdit \o Slash \o title, StatusFound)
        ELSE renderTemplate(w, "view", l.p, exec)

\* editHandler without the fallback page
editHandlerNoFallback(w, fs, title, exec) ==
    LET l == loadPage(fs, title)
    IN  renderTemplate(w, "edit", l.p, exec)

editHandler(w, fs, title, exec) ==
    LET l == loadPage(fs, title)
        p == IF l.err # "nil" THEN <<Page(title, <<>>)>> ELSE l.p
    IN  renderTemplate(w, "edit", p, exec)

\* saveHandler without the return after http.Error
saveHandlerNoReturn(w, title, err) ==
    Redirect(IF err # "nil" THEN Error(w, err, StatusInternalServerError) ELSE w,
             Slash \o OpView \o Slash \o title, StatusFound)

\* saveHandler once p.save() has returned err
saveHandler(w, title, err) ==
    IF err # "nil" THEN Error(w, err, StatusInternalServerError)
    ELSE Redirect(w, Slash \o OpView \o Slash \o title, StatusFound)

(***************************************************************************)
(* The state.                                                              *)
(*   files  the files of the working directory                             *)
(*   conn   the goroutines serving requests: one is "idle" or has "opened" *)
(*          (created and truncated) the file of a save it is serving and   *)
(*          not yet written it.  rivals is history: the other saves to the *)
(*          same file that returned since this one opened the file, each   *)
(*          with its body and whether it succeeded                         *)
(*   last   the exchange completed last: the request, what served it, the  *)
(*          file it used, the page and the error that loadPage or save     *)
(*          returned, how the template executed, and the response sent     *)
(*   nreq   the number of requests accepted                                *)
(*   saved  history: for a file name, the body of the save to it that      *)
(*          succeeded last, with its rivals, as long as no other save to   *)
(*          the file has taken a step since                                *)
(***************************************************************************)
VARIABLES files, conn, last, nreq, saved
vars == <<files, conn, last, nreq, saved>>

Idle == [pc |-> "idle", path |-> <<>>, title |-> <<>>, body |-> <<>>, rivals |-> <<>>]

NoExchange == [path |-> <<>>, route |-> "none", title |-> <<>>, file |-> <<>>,
               loaded |-> <<>>, form |-> <<>>, err |-> "nil", exec |-> "none",
               resp |-> NewResponse]

Exchange(path, route, title, w) ==
    [NoExchange EXCEPT !.path = path, !.route = route, !.title = title,
                       !.resp = FinishRequest(w)]

Without(f, x) == [y \in DOMAIN f \ {x} |-> f[y]]
With(f, x, v) == [y \in DOMAIN f \cup {x} |-> IF y = x THEN v ELSE f[y]]

Init ==
    /\ files = <<>>
    /\ conn = [c \in Conns |-> Idle]
    /\ last = NoExchange
    /\ nreq = 0
    /\ saved = <<>>

\* main's mux and validPath on each path of the inputs, computed once
Mux == [path \in Paths |-> ServeMux(path)]
Submatch == [path \in Paths |-> FindStringSubmatch(path)]
Wrapped == {"view", "edit", "save"}

\* the mux answers a path that is not in canonical form, or that names a
\* registered subtree without its trailing slash, with a redirect
MuxRedirect(path) ==
    /\ Mux[path].kind = "redirect"
    /\ last' = Exchange(path, "redirect", <<>>,
                        Redirect(NewResponse, Mux[path].url, StatusMovedPermanently))
    /\ nreq' = nreq + 1
    /\ UNCHANGED <<files, conn, saved>>

\* http.HandleFunc("/", homeHandler)
HomeRequest(path, exec) ==
    /\ Mux[path].kind = "handler" /\ Mux[path].to = "home"
    /\ last' = [Exchange(path, "home", HomePage, homeHandler(NewResponse, files, exec))
                  EXCEPT !.file = HomePage \o DotTxt,
                         !.loaded = loadPage(files, HomePage).p,
                         !.err = loadPage(files, HomePage).err,
                         !.exec = exec]
    /\ nreq' = nreq + 1
    /\ UNCHANGED <<files, conn, saved>>

\* makeHandler: the path does not match validPath
InvalidPath(path) ==
    /\ Mux[path].kind = "handler" /\ Mux[path].to \in Wrapped
    /\ Submatch[path] = <<>>
    /\ last' = Exchange(path, "notfound", <<>>, NotFound(NewResponse))
    /\ nreq' = nreq + 1
    /\ UNCHANGED <<files, conn, saved>>

\* makeHandler(viewHandler)
ViewRequest(path, exec) ==
    /\ Mux[path].kind = "handler" /\ Mux[path].to = "view"
    /\ Submatch[path] # <<>>
    /\ LET title == Submatch[path][3]
           l == loadPage(files, title)
       IN  last' = [Exchange(path, "view", title,
                             viewHandler(NewResponse, files, title, exec))
                      EXCEPT !.file = title \o DotTxt, !.loaded = l.p, !.err = l.err,
                             !.exec = IF l.err = "nil" THEN exec ELSE "none"]
    /\ nreq' = nreq + 1
    /\ UNCHANGED <<files, conn, saved>>

\* makeHandler(editHandler)
EditRequest(path, exec) ==
    /\ Mux[path].kind = "handler" /\ Mux[path].to = "edit"
    /\ Submatch[path] # <<>>
    /\ LET title == Submatch[path][3]
           l == loadPage(files, title)
       IN  last' = [Exchange(path, "edit", title,
                             editHandler(NewResponse, files, title, exec))
                      EXCEPT !.file = title \o DotTxt, !.loaded = l.p, !.err = l.err,
                             !.exec = exec]
    /\ nreq' = nreq + 1
    /\ UNCHANGED <<files, conn, saved>>

\* makeHandler(saveHandler) up to the first step of ioutil.WriteFile: the
\* file is opened, which creates or truncates it; if that fails, save returns
\* the error and the handler answers.  The goroutines are alike: the request
\* goes to the first that is idle.
SaveBegin(c, path, body, opens) ==
    /\ conn[c].pc = "idle"
    /\ \A d \in Conns : d < c => conn[d].pc # "idle"
    /\ Mux[path].kind = "handler" /\ Mux[path].to = "save"
    /\ Submatch[path] # <<>>
    /\ LET title == Submatch[path][3]
           filename == title \o DotTxt
           err == "open: permission denied"
       IN  IF opens
           THEN /\ files' = OpenTrunc(files, filename)
                /\ conn' = [conn EXCEPT ![c] = [pc |-> "opened", path |-> path,
                                                title |-> title, body |-> body,
                                                rivals |-> <<>>]]
                /\ last' = last
                /\ saved' = Without(saved, filename)
           ELSE /\ last' = [Exchange(path, "save", title,
                                     saveHandler(NewResponse, title, err))
                              EXCEPT !.file = filename, !.form = body, !.err = err]
                /\ saved' = Without(saved, filename)
                /\ UNCHANGED <<files, conn>>
    /\ nreq' = nreq + 1

\* the rest of ioutil.WriteFile and of saveHandler: n bytes of the body are
\* written (all of them unless the write fails), the file is closed, and the
\* handler answers.  (Close after a complete write is taken not to fail.)
SaveWrite(c, n) ==
    /\ conn[c].pc = "opened"
    /\ n \in 0..Len(conn[c].body)
    /\ LET title == conn[c].title
           filename == title \o DotTxt
           body == conn[c].body
           err == IF n < Len(body) THEN "short write" ELSE "nil"
       IN  /\ files' = WriteAt0(files, filename, body, n)
           /\ last' = [Exchange(conn[c].path, "save", title,
                                saveHandler(NewResponse, title, err))
                         EXCEPT !.file = filename, !.form = body, !.err = err]
           /\ saved' = IF err = "nil"
                       THEN With(saved, filename,
                                 [body |-> body, rivals |-> conn[c].rivals])
                       ELSE Without(saved, filename)
           /\ conn' = [d \in Conns |->
                        IF d = c THEN Idle
                        ELSE IF conn[d].pc = "opened" /\ conn[d].title = title
                        THEN [conn[d] EXCEPT
                                !.rivals = Append(@, [body |-> body, ok |-> err = "nil"])]
                        ELSE conn[d]]
    /\ UNCHANGED nreq

\* the paths each action can serve
ServedBy(to) == {path \in Paths : Mux[path].kind = "handler" /\ Mux[path].to = to}
RedirectPaths == {path \in Paths : Mux[path].kind = "redirect"}
HomePaths == ServedBy("home")
InvalidPaths == {path \in UNION {ServedBy(h) : h \in Wrapped} : Submatch[path] = <<>>}
ViewPaths == {path \in ServedBy("view") : Submatch[path] # <<>>}
EditPaths == {path \in ServedBy("edit") : Submatch[path] # <<>>}
SavePaths == {path \in ServedBy("save") : Submatch[path] # <<>>}

Accepting(max) == nreq < max

Next ==
    \/ \E path \in StorePaths \cap RedirectPaths :
          Accepting(MaxRequests) /\ MuxRedirect(path)
    \/ \E path \in StorePaths \cap HomePaths, exec \in ExecOutcomes :
          Accepting(MaxRequests) /\ HomeRequest(path, exec)
    \/ \E path \in StorePaths \cap InvalidPaths :
          Accepting(MaxRequests) /\ InvalidPath(path)
    \/ \E path \in StorePaths \cap ViewPaths, exec \in ExecOutcomes :
          Accepting(MaxRequests) /\ ViewRequest(path, exec)
    \/ \E path \in StorePaths \cap EditPaths, exec \in ExecOutcomes :
          Accepting(MaxRequests) /\ EditRequest(path, exec)
    \/ \E c \in Conns, path \in StorePaths \cap SavePaths, body \in Bodies,
          opens \in BOOLEAN :
          Accepting(MaxRequests) /\ SaveBegin(c, path, body, opens)
    \/ \E c \in Conns, n \in 0..MaxBodyLen : SaveWrite(c, n)

Spec == Init /\ [][Next]_vars

\* The same server, with requests for every path of RoutingPaths: one
\* goroutine, one body, templates that execute, writes that succeed.
NextRouting ==
    \/ \E path \in RoutingPaths \cap RedirectPaths :
          Accepting(MaxRoutingRequests) /\ MuxRedirect(path)
    \/ \E path \in RoutingPaths \cap HomePaths :
          Accepting(MaxRoutingRequests) /\ HomeRequest(path, "ok")
    \/ \E path \in RoutingPaths \cap InvalidPaths :
          Accepting(MaxRoutingRequests) /\ InvalidPath(path)
    \/ \E path \in RoutingPaths \cap ViewPaths :
          Accepting(MaxRoutingRequests) /\ ViewRequest(path, "ok")
    \/ \E path \in RoutingPaths \cap EditPaths :
          Accepting(MaxRoutingRequests) /\ EditRequest(path, "ok")
    \/ \E path \in RoutingPaths \cap SavePaths, opens \in BOOLEAN :
          Accepting(MaxRoutingRequests) /\ SaveBegin(1, path, Body(1), opens)
    \/ SaveWrite(1, 1)

SpecRouting == Init /\ [][NextRouting]_vars

(***************************************************************************)
(* What the properties below speak of.                                     *)
(***************************************************************************)
Min(a, b) == IF a < b THEN a ELSE b
Status == last.resp.status
Location == last.resp.location
Out == last.resp.out
FullPage(name, page) == <<TemplateChunk(name, <<page>>, "all")>>
TemplateChunks(out) == {out[i] : i \in {k \in 1..Len(out) : out[k].kind = "template"}}
TextChunks(out) == {out[i] : i \in {k \in 1..Len(out) : out[k].kind = "text"}}

\* the response is the one of renderTemplate(name, page), given how the
\* template executed: all of the output with status 200 if it executed, and
\* in any case no output of another template or page
RenderedWith(x, name, page) ==
    /\ x.exec = "ok" => x.resp.status = StatusOK /\ x.resp.out = FullPage(name, page)
    /\ \A ch \in TemplateChunks(x.resp.out) :
          ch.data = <<page>> /\ ch.text \in {name \o ":all", name \o ":part"}

\* the path matches ^/(edit|save|view)/([a-zA-Z0-9]+)$, said without a scan
Alnum == Lower \cup Upper \cup Digit
UnderKeyword(path, kw) == HasPrefix(path, Slash \o kw \o Slash)
Under(path) == \E kw \in {OpEdit, OpSave, OpView} : UnderKeyword(path, kw)
ValidTitle(t) == Len(t) >= 1 /\ \A i \in 1..Len(t) : t[i] \in Alnum
Valid(path) == Under(path) /\ ValidTitle(Drop(path, 6))
KeywordName(path) ==
    IF UnderKeyword(path, OpEdit) THEN "edit"
    ELSE IF UnderKeyword(path, OpSave) THEN "save" ELSE "view"
ValidFileName(fn) == HasSuffix(fn, DotTxt) /\ ValidTitle(SubSeq(fn, 1, Len(fn) - 4))

\* steps: a request is answered in one step; a save that opened its file
\* returns in a later step
AnsweredAtOnce == nreq' = nreq + 1 /\ conn' = conn
SaveReturns == \E c \in Conns : conn[c].pc = "opened" /\ conn'[c].pc = "idle"
Saving(fn) == \E c \in Conns : conn[c].pc = "opened" /\ conn[c].title \o DotTxt = fn

(***************************************************************************)
(* C1  Round trip, as stated: a page loaded from a file (by the view or    *)
(* the edit handler) after a save to it succeeded, no other save to that   *)
(* title having taken a step since, has the title and the body saved.      *)
(***************************************************************************)
C1_RoundTripAsStated ==
    (last.route \in {"view", "edit"} /\ last.file \in DOMAIN saved)
        => /\ last.err = "nil"
           /\ last.loaded = <<Page(last.title, saved[last.file].body)>>

(***************************************************************************)
(* C1  Round trip, amended: the same, when moreover no other save to the   *)
(* title wrote the file while the save ran (between its truncation of the  *)
(* file and its write).                                                    *)
(***************************************************************************)
C1_RoundTrip ==
    (/\ last.route \in {"view", "edit"}
     /\ last.file \in DOMAIN saved
     /\ saved[last.file].rivals = <<>>)
        => /\ last.err = "nil"
           /\ last.loaded = <<Page(last.title, saved[last.file].body)>>

C1_Witness ==
    /\ last.route = "edit"
    /\ last.file \in DOMAIN saved
    /\ saved[last.file].rivals = <<>>
    /\ last.loaded = <<Page(<<"a">>, Body(2))>>

C5_SaveOutcomeAsStated ==
    [][ ((AnsweredAtOnce \/ SaveReturns) /\ last'.route = "save") =>
          \/ /\ last'.err = "nil"
             /\ last'.file \in DOMAIN files'
             /\ files'[last'.file] = last'.form
             /\ last'.resp.status = StatusFound
             /\ last'.resp.location = Slash \o OpView \o Slash \o last'.title
          \/ /\ last'.err # "nil"
             /\ last'.resp.status = StatusInternalServerError
             /\ last'.resp.out = <<TextChunk(last'.err)>>
             /\ last'.resp.location = <<>> ]_vars

(***************************************************************************)
(* C5  Save outcome, amended: in the first case the file begins with the   *)
(* submitted body, and holds exactly the submitted body unless another     *)
(* save to the same title wrote the file between this save's truncation of *)
(* the file and its write.                                                 *)
(***************************************************************************)
C5_SaveOutcome ==
    [][ ((AnsweredAtOnce \/ SaveReturns) /\ last'.route = "save") =>
          \/ /\ last'.err = "nil"
             /\ last'.file \in DOMAIN files'
             /\ HasPrefix(files'[last'.file], last'.form)
             /\ saved'[last'.file].rivals = <<>> => files'[last'.file] = last'.form
             /\ last'.resp.status = StatusFound
             /\ last'.resp.location = Slash \o OpView \o Slash \o last'.title
          \/ /\ last'.err # "nil"
             /\ last'.resp.status = StatusInternalServerError
             /\ last'.resp.out = <<TextChunk(last'.err)>>
             /\ last'.resp.location = <<>> ]_vars

C5_Witness ==
    /\ last.route = "save"
    /\ last.err = "nil"
    /\ last.form = Body(2)
    /\ Status = StatusFound
    /\ files[last.file] = Body(2)

(***************************************************************************)
(* C6  Save-then-view, as stated: a view request for a title, after a save *)
(* to it succeeded and no other save to that title has taken a step since, *)
(* is answered with the view template executed with the page of the body   *)
(* saved, and with no redirect.                                            *)
(***************************************************************************)
C6_SaveThenViewAsStated ==
    (last.route = "view" /\ last.file \in DOMAIN saved)
        => /\ Location = <<>>
           /\ Status # StatusFound
           /\ RenderedWith(last, "view.html", Page(last.title, saved[last.file].body))

(***************************************************************************)
(* C6  Save-then-view, amended: the same, when moreover no other save to   *)
(* the title wrote the file while the save ran.                            *)
(***************************************************************************)
C6_SaveThenView ==
    (/\ last.route = "view"
     /\ last.file \in DOMAIN saved
     /\ saved[last.file].rivals = <<>>)
        => /\ Location = <<>>
           /\ Status # StatusFound
           /\ RenderedWith(last, "view.html", Page(last.title, saved[last.file].body))

C6_Witness ==
    /\ last.route = "view"
    /\ last.file \in DOMAIN saved
    /\ saved[last.file].rivals = <<>>
    /\ Out = FullPage("view.html", Page(<<"a">>, Body(1)))
    /\ (HomePage \o DotTxt) \in DOMAIN files

(***************************************************************************)
(* C7  New-page edit: an edit request whose file does not exist is         *)
(* answered with the edit template executed with the page of the given     *)
(* title and an empty body; one whose file exists, with the page of that   *)
(* file.  Neither is a redirect, and the response carries an error text    *)
(* only if the execution of the template failed.                           *)
(***************************************************************************)
C7_NewPageEdit ==
    [][ (AnsweredAtOnce /\ last'.route = "edit") =>
          /\ last'.resp.location = <<>>
          /\ last'.resp.status # StatusFound
          /\ last'.exec = "ok" => TextChunks(last'.resp.out) = {}
          /\ last'.file \notin DOMAIN files =>
                RenderedWith(last', "edit.html", Page(last'.title, <<>>))
          /\ last'.file \in DOMAIN files =>
                RenderedWith(last', "edit.html", Page(last'.title, files[last'.file])) ]_vars

C7_Witness ==
    /\ last.route = "edit"
    /\ last.err # "nil"
    /\ Status = StatusOK
    /\ Out = FullPage("edit.html", Page(<<"a">>, <<>>))

(***************************************************************************)
(* C8  Render failure, as stated: whenever the execution of a template     *)
(* fails, the response is 500 and its body is the error text and nothing   *)
(* else.                                                                   *)
(***************************************************************************)
C8_RenderFailure ==
    last.exec \in {"failEarly", "failLate"}
        => Status = StatusInternalServerError /\ Out = <<TextChunk("exec error")>>

(***************************************************************************)
(* C10  Last writer wins, as stated: when two saves to a title overlapped, *)
(* both succeeded and no save to the title is in progress, the file holds  *)
(* exactly the body of the save that wrote last.                           *)
(***************************************************************************)
TwoSavesDone(fn) ==
    /\ fn \in DOMAIN saved
    /\ ~Saving(fn)
    /\ Len(saved[fn].rivals) = 1
    /\ saved[fn].rivals[1].ok

C10_LastWriterWinsAsStated ==
    \A fn \in DOMAIN saved : TwoSavesDone(fn) => files[fn] = saved[fn].body

(***************************************************************************)
(* C10  amended: the file then holds the body of the save that wrote last  *)
(* followed by the bytes of the other body beyond that length: exactly the *)
(* last body if it is at least as long as the other, else a mixture.       *)
(***************************************************************************)
C10_LastWriterOverlays ==
    \A fn \in DOMAIN saved :
       TwoSavesDone(fn) =>
          LET mine == saved[fn].body
              other == saved[fn].rivals[1].body
          IN  /\ files[fn] = mine \o Drop(other, Min(Len(mine), Len(other)))
              /\ Len(mine) >= Len(other) => files[fn] = mine

C10_Witness ==
    \E fn \in DOMAIN saved :
       /\ TwoSavesDone(fn)
       /\ saved[fn].body = Body(1)
       /\ saved[fn].rivals[1].body = Body(2)
       /\ files[fn] = <<Body(1)[1], Body(2)[2]>>

(***************************************************************************)
(* C2  Routing, as stated: a request whose path matches the pattern is     *)
(* served by the handler of its keyword with the title of the path; one    *)
(* whose path is under /view/, /edit/ or /save/ and does not match is      *)
(* answered 404, by no handler and without use of a file.                  *)
(***************************************************************************)
C2_RoutingAsStated ==
    last.route # "none" =>
       /\ Valid(last.path) =>
             last.route = KeywordName(last.path) /\ last.title = Drop(last.path, 6)
       /\ (Under(last.path) /\ ~Valid(last.path)) =>
             /\ Status = StatusNotFound
             /\ last.route = "notfound"
             /\ last.file = <<>>

(***************************************************************************)
(* C2  Routing, amended: a path under /view/, /edit/ or /save/ that does   *)
(* not match is served by no handler and without use of a file; it is      *)
(* answered 404 if it is in canonical form, and else (an empty, "." or     *)
(* ".." segment) 301 by the mux, with the cleaned path as Location.        *)
(***************************************************************************)
Segments(path) == Split(path, 2, <<>>)
Canonical(path) ==
    \A i \in 1..Len(Segments(path)) :
       /\ Segments(path)[i] \notin {<<".">>, <<".", ".">>}
       /\ Segments(path)[i] = <<>> => i = Len(Segments(path))

C2_Routing ==
    last.route # "none" =>
       /\ Valid(last.path) =>
             last.route = KeywordName(last.path) /\ last.title = Drop(last.path, 6)
       /\ (Under(last.path) /\ ~Valid(last.path)) =>
             /\ last.route \in {"notfound", "redirect"}
             /\ last.file = <<>>
             /\ Out \in {<<>>, <<TextChunk("404 page not found")>>}
             /\ Canonical(last.path) =>
                   Status = StatusNotFound /\ last.route = "notfound"
             /\ ~Canonical(last.path) =>
                   /\ Status = StatusMovedPermanently
                   /\ Location # last.path
                   /\ Canonical(Location)

C2_Witness ==
    /\ last.path = <<"/","v","i","e","w","/","h","a","s"," ","s","p","a","c","e">>
    /\ last.route = "notfound"
    /\ Status = StatusNotFound

(***************************************************************************)
(* C3  Other paths, as stated: a request whose path is neither "/" nor a   *)
(* path that matches the pattern is answered 404 and served by none of the *)
(* home, view, edit and save handlers.                                     *)
(***************************************************************************)
C3_OtherPaths404 ==
    (last.route # "none" /\ last.path # Slash /\ ~Valid(last.path))
        => Status = StatusNotFound /\ last.route \notin {"home", "view", "edit", "save"}

(***************************************************************************)
(* C9  Security boundary: every file that exists, that a request used or   *)
(* that a save in progress is writing is named <title>.txt with a non-empty*)
(* title of letters and digits, and so is the title every handler got.     *)
(***************************************************************************)
C9_SecurityBoundary ==
    /\ \A fn \in DOMAIN files : ValidFileName(fn)
    /\ last.file # <<>> => ValidFileName(last.file) /\ last.file = last.title \o DotTxt
    /\ last.route \in {"home", "view", "edit", "save"} => ValidTitle(last.title)
    /\ last.route \in {"redirect", "notfound", "none"} => last.file = <<>>
    /\ \A c \in Conns : conn[c].pc = "opened" => ValidTitle(conn[c].title)

C9_Witness ==
    /\ last.path = <<"/","s","a","v","e","/",".","a">>
    /\ last.route = "notfound"
    /\ last.file = <<>>
    /\ (<<"a">> \o DotTxt) \in DOMAIN files

====
